---------------------------- MODULE Spec2Model ----------------------------
(***************************************************************************)
(* A model of app/android.c: the JNI bridge between the embedded native    *)
(* runtime and the Android Java framework.                                 *)
(*                                                                         *)
(* Pointers and JNI handles are abstracted to their NULL-ness: NULL (0) or *)
(* NonNull (1).  Every JNI / EGL / JavaVM call made by the code is an      *)
(* external call whose outcome is an input of the action that models the   *)
(* handler making it.  A handler is one action; the calls it makes are     *)
(* recorded, in order, in lastCalls.                                       *)
(*                                                                         *)
(* Undefined behaviour:                                                    *)
(*  - a NULL handle passed to a JNI function that requires a valid one     *)
(*    makes the runtime abort or fault (NullArgFatal): crashed;            *)
(*  - a call through a NULL JNIEnv* is a load from address 0, which faults *)
(*    on the platform: crashed;                                            *)
(*  - the uninitialised format read after a failed eglGetConfigAttrib is   *)
(*    handed to ANativeWindow_setBuffersGeometry, whose outcome is free.   *)
(* A crashed process runs no further handler.                              *)
(*                                                                         *)
(* A pending Java exception belongs to a thread.  The handlers are taken   *)
(* to run on one thread, so that an exception one handler leaves pending   *)
(* is the one the next handler finds (exceptionPending).                   *)
(***************************************************************************)
EXTENDS Integers, Sequences, FiniteSets, TLC

\* ------------------------------------------------------------- bounds ----
\* How many times the Activity is created in one process.
MaxCreates == 3
\* How many superclasses the getApplicationContext search may climb.
MaxSuperHops == 1

\* ------------------------------------------------------------ handles ----
NULL == 0
NonNull == 1

VARIABLES
  \* ANativeActivity_onCreate
  main_running, current_class, key_rune_method,
  setupRuns,        \* times the block guarded by main_running was entered
  callMainCalls,    \* times callMain was invoked
  onCreateCalls,    \* times onCreate(activity) was forwarded
  activityCreates,  \* times ANativeActivity_onCreate was entered
  \* EGL
  display, surface,
  \* clipboard globals
  clipboardManager, applicationContext, contextClass,
  clipDataClass, clipDataConstructor, clipDataItemClass,
  clipDataItemConstructor, clipDescriptionClass, clipDescriptionConstructor,
  getPrimaryClipFunc, getItemAtFunc, getTextFunc, charSequencetoString,
  setPrimaryClipFunc, clipboardFailed, clipboardLastError,
  \* browser globals
  intentClass, intentConstructor, uriClass, uriParseFunc, startActivityFunc,
  actionViewString, browserFailed, browserInitCompleted, browserLastError,
  \* the JNI state of the thread the handlers run on
  exceptionPending, \* a Java exception is pending
  \* the last handler invocation, as an observer sees it
  lastOp,           \* name of the handler
  lastCalls,        \* external calls it made, in order
  lastCem,          \* its copyExceptionMessage invocations: [prefix, pending]
  lastNullArgs,     \* calls that were handed a NULL handle
  lastFailed,       \* calls whose result was a failure
  lastEnv,          \* the JNIEnv* it obtained: "valid", "null", or "none"
  lastRet,          \* what it returned
  crashed           \* the process died

mainVars == <<main_running, current_class, key_rune_method, setupRuns,
              callMainCalls, onCreateCalls, activityCreates>>
eglVars == <<display, surface>>
clipHandles == <<clipboardManager, applicationContext, contextClass,
                 clipDataClass, clipDataConstructor, clipDataItemClass,
                 clipDataItemConstructor, clipDescriptionClass,
                 clipDescriptionConstructor, getPrimaryClipFunc,
                 getItemAtFunc, getTextFunc, charSequencetoString,
                 setPrimaryClipFunc>>
clipVars == <<clipHandles, clipboardFailed, clipboardLastError>>
browserHandles == <<intentClass, intentConstructor, uriClass, uriParseFunc,
                    startActivityFunc, actionViewString>>
browserVars == <<browserHandles, browserFailed, browserInitCompleted,
                 browserLastError>>
obsVars == <<lastOp, lastCalls, lastCem, lastNullArgs, lastFailed, lastEnv,
             lastRet, crashed>>
vars == <<mainVars, eglVars, clipVars, browserVars, exceptionPending,
          obsVars>>

\* ------------------------------------------------- external-call inputs ----
\* Whether a NULL / 0 result of the JNI function fn leaves a Java exception
\* pending: lookups and allocations throw; a Java method may throw or return
\* null; a static field may hold null, and GetObjectClass and GetSuperclass
\* do not throw.  A void or int Java method fails only by throwing (a 0 it
\* returns normally is a result).
ThrowsOnNull(fn) ==
  CASE fn \in {"FindClass", "GetMethodID", "GetStaticMethodID",
               "GetStaticFieldID", "NewStringUTF", "NewObject",
               "NewObjectArray", "CallVoidMethod", "CallStaticIntMethod",
               "GetStringUTFChars"} -> {TRUE}
    [] fn \in {"CallObjectMethod", "CallStaticObjectMethod"} -> {TRUE, FALSE}
    [] OTHER -> {FALSE}

\* The outcomes of one external call: a valid result, or NULL / 0 with or
\* without an exception left pending.  setenv's failure is only logged and
\* ReleaseStringUTFChars returns nothing.
CallOutcomes(fn) ==
  {[r |-> NonNull, thrown |-> FALSE]} \cup
  (IF fn \in {"setenv", "ReleaseStringUTFChars"} THEN {}
   ELSE {[r |-> NULL, thrown |-> e] : e \in ThrowsOnNull(fn)})

\* What handing NULL to a JNI function that requires a valid handle does.
\* The platform's runtime aborts on a NULL required argument (or faults
\* dereferencing it): the process dies, whichever way.
NullArgFatal == {TRUE}

\* ------------------------------------------------ a handler's execution ----
\* One external call of a handler and the check the code makes after it:
\*   line   source line of the call (its identity in traces)
\*   fn     the JNI function
\*   via    "" or the wrapper (find_method, find_static_method) it goes through
\*   args   the handles it is given that must be valid
\*   dest   the variable that receives the result ("" for none)
\*   check  the variable the code then tests for NULL ("" for no test,
\*          "ExceptionOccurred" for the test of a pending exception)
\*   msg    the prefix handed to copyExceptionMessage when the test fires
Step(line, fn, via, args, dest, check, msg) ==
  [line |-> line, fn |-> fn, via |-> via, args |-> args, dest |-> dest,
   check |-> check, msg |-> msg]

\* The state of an invocation before its first call: the handles env, the
\* failed flag and last-error buffer of the service, the exception the
\* thread was left with, nothing observed yet.
Start(env, failed, err) ==
  [env |-> env, failed |-> failed, err |-> err, pending |-> exceptionPending,
   calls |-> <<>>, cem |-> <<>>, nullArgs |-> {}, faults |-> {},
   crashed |-> FALSE, returned |-> FALSE]

\* The call s with outcome o.  Through find_method / find_static_method a
\* failure is described and cleared before the wrapper returns 0.
Called(st, s, o, fatal) ==
  LET nullArg == \E a \in s.args : st.env[a] = NULL
      pend    == IF s.via # "" /\ o.r = NULL THEN FALSE
                 ELSE st.pending \/ o.thrown
      made    == [st EXCEPT
                    !.calls = Append(@, [fn |-> IF s.via # "" THEN s.via
                                                ELSE s.fn,
                                         line |-> s.line]),
                    !.nullArgs = IF nullArg THEN @ \cup {s.line} ELSE @]
  IN  IF nullArg /\ fatal THEN [made EXCEPT !.crashed = TRUE]
      ELSE [made EXCEPT
              !.env = IF s.dest = "" THEN @ ELSE [@ EXCEPT ![s.dest] = o.r],
              !.pending = pend,
              !.faults = IF o.r = NULL THEN @ \cup {s.line} ELSE @]

\* The states after the call s, over its outcomes.
JNICall(st, s) ==
  IF \E a \in s.args : st.env[a] = NULL
  THEN {Called(st, s, o, fatal) : o \in CallOutcomes(s.fn),
                                  fatal \in NullArgFatal}
  ELSE {Called(st, s, o, FALSE) : o \in CallOutcomes(s.fn)}

\* The call s from each state of S in which the process is alive.
Then(S, s) == UNION {IF a.crashed THEN {a} ELSE JNICall(a, s) : a \in S}

\* Lines 251-257: the JNI calls of copyExceptionMessage on the throwable e.
\* None of their results is tested.
cemSteps == <<
  Step(251, "GetObjectClass", "", {"e"}, "clazz", "", ""),
  Step(252, "GetMethodID", "", {"clazz"}, "getMessage", "", ""),
  Step(255, "CallObjectMethod", "", {"e", "getMessage"}, "jStringOutput",
       "", ""),
  Step(257, "GetStringUTFChars", "", {"jStringOutput"}, "javaOwnedOutput",
       "", "") >>

\* copyExceptionMessage: takes the pending exception e (NULL if none is
\* pending) and clears it (lines 248-249), asks e for its message (251-257),
\* copies the prefix (258) and then the message (261) into the buffer; the
\* strncpy of line 261 from a NULL message faults.  The buffer is modelled
\* by the prefix it starts with.  The result is the set of states the
\* invocation can be in afterwards; the calls made in here are not among
\* the calls and faults of the handler.
copyExceptionMessage(st, prefix) ==
  LET taken == [st EXCEPT
                  !.cem = Append(@, [prefix |-> prefix,
                                     pending |-> st.pending]),
                  !.env.e = IF st.pending THEN NonNull ELSE NULL,
                  !.pending = FALSE]
      asked == Then(Then(Then(Then({taken}, cemSteps[1]), cemSteps[2]),
                         cemSteps[3]), cemSteps[4])
      copy(a) == IF a.crashed THEN a
                 ELSE IF a.env.javaOwnedOutput = NULL
                 THEN [a EXCEPT !.err = prefix, !.crashed = TRUE]
                 ELSE [a EXCEPT !.err = prefix]
  IN  {[copy(a) EXCEPT !.calls = st.calls, !.faults = st.faults] :
         a \in asked}

\* The test after the call: on NULL, set the failed flag (setup handlers
\* only), copy the exception message and return.
Checked(st, s, setsFlag) ==
  LET bad == CASE s.check = "" -> FALSE
               [] s.check = "ExceptionOccurred" -> st.pending
               [] OTHER -> st.env[s.check] = NULL
  IN  IF st.crashed \/ ~bad THEN {st}
      ELSE copyExceptionMessage(
             [st EXCEPT !.failed = IF setsFlag THEN 1 ELSE @,
                        !.returned = TRUE], s.msg)

RECURSIVE RunSteps(_, _, _)
\* The calls of a handler in program order, up to the first return or crash:
\* the states the invocation can end in.
RunSteps(steps, st, setsFlag) ==
  IF steps = <<>> \/ st.crashed \/ st.returned THEN {st}
  ELSE UNION {UNION {RunSteps(Tail(steps), b, setsFlag) :
                       b \in Checked(a, Head(steps), setsFlag)} :
                a \in JNICall(st, Head(steps))}

\* RunSteps from each of the states S.
RunFrom(steps, S, setsFlag) ==
  UNION {RunSteps(steps, st, setsFlag) : st \in S}

\* ----------------------------------------------------------- the handles ----
\* The locals of the handlers at entry: context is activity->clazz, the
\* Activity object, which is valid; the others are not yet assigned.
Locals ==
  [n \in {"context", "getApplicationContextFunc", "generalContextClass",
          "clipboardServiceField", "clipboardServiceName",
          "getSystemServiceFunc", "localClipboardManager",
          "clipboardManagerClass", "charSequenceClass",
          "clipData", "clipFirstItem", "charSequence", "result",
          "textToSet", "stringClass", "mimeTypeString",
          "mimeTypeStringArray", "clipDescription", "inputString",
          "clipDataItem", "actionViewField", "urlstring", "uri", "intent",
          "utf", "gettmpdir", "jpath", "tmpdir",
          "e", "clazz", "getMessage", "jStringOutput", "javaOwnedOutput"}
     |-> IF n = "context" THEN NonNull ELSE NULL]

\* The globals and an invocation's locals, by name.
Handles ==
  [current_class |-> current_class, key_rune_method |-> key_rune_method,
   clipboardManager |-> clipboardManager,
   applicationContext |-> applicationContext, contextClass |-> contextClass,
   clipDataClass |-> clipDataClass,
   clipDataConstructor |-> clipDataConstructor,
   clipDataItemClass |-> clipDataItemClass,
   clipDataItemConstructor |-> clipDataItemConstructor,
   clipDescriptionClass |-> clipDescriptionClass,
   clipDescriptionConstructor |-> clipDescriptionConstructor,
   getPrimaryClipFunc |-> getPrimaryClipFunc, getItemAtFunc |-> getItemAtFunc,
   getTextFunc |-> getTextFunc, charSequencetoString |-> charSequencetoString,
   setPrimaryClipFunc |-> setPrimaryClipFunc,
   intentClass |-> intentClass, intentConstructor |-> intentConstructor,
   uriClass |-> uriClass, uriParseFunc |-> uriParseFunc,
   startActivityFunc |-> startActivityFunc,
   actionViewString |-> actionViewString] @@ Locals

\* What an invocation leaves for an observer.
Observe(op, st, envPtr, ret) ==
  /\ lastOp' = op
  /\ lastCalls' = st.calls
  /\ lastCem' = st.cem
  /\ lastNullArgs' = st.nullArgs
  /\ lastFailed' = st.faults
  /\ lastEnv' = envPtr
  /\ lastRet' = IF st.crashed THEN "crash" ELSE ret
  /\ crashed' = st.crashed
  /\ exceptionPending' = (~st.crashed /\ st.pending)

\* Write the clipboard globals back from an invocation.
StoreClip(st) ==
  /\ clipboardManager' = st.env.clipboardManager
  /\ applicationContext' = st.env.applicationContext
  /\ contextClass' = st.env.contextClass
  /\ clipDataClass' = st.env.clipDataClass
  /\ clipDataConstructor' = st.env.clipDataConstructor
  /\ clipDataItemClass' = st.env.clipDataItemClass
  /\ clipDataItemConstructor' = st.env.clipDataItemConstructor
  /\ clipDescriptionClass' = st.env.clipDescriptionClass
  /\ clipDescriptionConstructor' = st.env.clipDescriptionConstructor
  /\ getPrimaryClipFunc' = st.env.getPrimaryClipFunc
  /\ getItemAtFunc' = st.env.getItemAtFunc
  /\ getTextFunc' = st.env.getTextFunc
  /\ charSequencetoString' = st.env.charSequencetoString
  /\ setPrimaryClipFunc' = st.env.setPrimaryClipFunc

\* Write the browser globals back from an invocation.
StoreBrowser(st) ==
  /\ intentClass' = st.env.intentClass
  /\ intentConstructor' = st.env.intentConstructor
  /\ uriClass' = st.env.uriClass
  /\ uriParseFunc' = st.env.uriParseFunc
  /\ startActivityFunc' = st.env.startActivityFunc
  /\ actionViewString' = st.env.actionViewString

\* ------------------------------------------------- setupClipboardManager ----
\* Line 357: contextClass = GetObjectClass(env, context).
clipSetupHead == <<
  Step(357, "GetObjectClass", "", {"context"}, "contextClass",
       "contextClass", "failed to get context class") >>

\* Lines 380-524, in program order.  A NewGlobalRef that follows a checked
\* result keeps its NULL-ness and is not a step of its own.
clipSetupTail == <<
  Step(380, "CallObjectMethod", "", {"context", "getApplicationContextFunc"},
       "applicationContext", "applicationContext",
       "failed to call getApplicationContext()"),
  Step(388, "GetObjectClass", "", {"applicationContext"}, "contextClass",
       "contextClass", "failed to get applicationcontext class"),
  \* line 397 tests context, not generalContextClass
  Step(396, "FindClass", "", {}, "generalContextClass",
       "context", "failed to find context class"),
  Step(403, "GetStaticFieldID", "", {"generalContextClass"},
       "clipboardServiceField", "clipboardServiceField",
       "failed to find clipboardServiceField"),
  Step(410, "GetStaticObjectField", "",
       {"generalContextClass", "clipboardServiceField"},
       "clipboardServiceName", "clipboardServiceName",
       "failed to read clipboardServiceField"),
  Step(417, "GetMethodID", "find_method", {"contextClass"},
       "getSystemServiceFunc", "getSystemServiceFunc",
       "failed to find getSystemService method"),
  Step(424, "CallObjectMethod", "",
       {"applicationContext", "getSystemServiceFunc"},
       "localClipboardManager", "localClipboardManager",
       "failed to get clipboard service"),
  Step(431, "FindClass", "", {}, "clipboardManagerClass",
       "clipboardManagerClass", "failed to get class of clipboardmanager"),
  Step(438, "GetMethodID", "find_method", {"clipboardManagerClass"},
       "setPrimaryClipFunc", "setPrimaryClipFunc",
       "failed to find setPrimaryClip method"),
  Step(445, "GetMethodID", "find_method", {"clipboardManagerClass"},
       "getPrimaryClipFunc", "getPrimaryClipFunc",
       "failed to find getPrimaryClip method"),
  Step(452, "FindClass", "", {}, "clipDataClass",
       "clipDataClass", "failed to find ClipData class"),
  Step(460, "GetMethodID", "find_method", {"clipDataClass"},
       "getItemAtFunc", "getItemAtFunc", "failed to find getItemAt method"),
  Step(467, "FindClass", "", {}, "clipDataItemClass",
       "clipDataItemClass", "failed to find ClipData.Item class"),
  Step(475, "GetMethodID", "find_method", {"clipDataItemClass"},
       "getTextFunc", "getTextFunc", "failed to find getText method"),
  Step(482, "FindClass", "", {}, "charSequenceClass",
       "charSequenceClass", "failed to find CharSequence class"),
  Step(489, "GetMethodID", "find_method", {"charSequenceClass"},
       "charSequencetoString", "charSequencetoString",
       "failed to find toString method"),
  Step(497, "GetMethodID", "find_method", {"clipDataItemClass"},
       "clipDataItemConstructor", "clipDataItemConstructor",
       "failed to find ClipDataItem constructor"),
  Step(504, "GetMethodID", "find_method", {"clipDataClass"},
       "clipDataConstructor", "clipDataConstructor",
       "failed to find ClipData constructor"),
  Step(511, "FindClass", "", {}, "clipDescriptionClass",
       "clipDescriptionClass", "failed to find ClipDescription class"),
  Step(519, "GetMethodID", "find_method", {"clipDescriptionClass"},
       "clipDescriptionConstructor", "clipDescriptionConstructor",
       "failed to find ClipDescription constructor") >>

\* Lines 365-378: look getApplicationContext up in contextClass and, while it
\* is not found, in its superclasses.  The method is found after hops climbs,
\* or never: then GetSuperclass returns NULL after hops climbs.  A find_method
\* that fails clears the thread's exception; GetSuperclass throws none.
FindContextLoop(st, hops, found) ==
  LET climbs == IF found THEN hops ELSE hops + 1
      trace  == [i \in 1..(2 * climbs) |->
                   IF i % 2 = 1 THEN [fn |-> "find_method", line |-> 367]
                   ELSE [fn |-> "GetSuperclass", line |-> 372]]
                \o (IF found THEN <<[fn |-> "find_method", line |-> 367]>>
                    ELSE <<>>)
      looked == [st EXCEPT
                   !.calls = @ \o trace,
                   !.pending = IF climbs > 0 THEN FALSE ELSE @,
                   !.faults = @ \cup (IF climbs > 0 THEN {367} ELSE {})
                                \cup (IF found THEN {} ELSE {372})]
  IN  IF st.crashed \/ st.returned THEN {st}
      ELSE IF found
      THEN {[looked EXCEPT !.env.getApplicationContextFunc = NonNull]}
      ELSE copyExceptionMessage(
             [looked EXCEPT !.env.contextClass = NULL, !.failed = 1,
                            !.returned = TRUE],
             "failed to get superclass")

\* clipSetupNeeded without the test of lines 348-350: setup runs again
\* although the manager is held.
clipSetupNeeded_NoHeldTest == clipboardFailed = 0

\* Lines 347-353: nothing to do once the manager is held or setup has failed.
clipSetupNeeded == ~(clipboardFailed = 0 /\ clipboardManager # NULL)
                   /\ clipboardFailed = 0

\* Lines 526-527, reached when no step returned.
clipSetupDone(st) ==
  IF st.crashed \/ st.returned THEN st
  ELSE [st EXCEPT !.env.clipboardManager = st.env.localClipboardManager,
                  !.err = ""]

\* Lines 355-529: the states the invocation can end in.
clipSetupBody ==
  LET A == RunSteps(clipSetupHead,
                    Start(Handles, clipboardFailed, clipboardLastError), TRUE)
      B == UNION {FindContextLoop(a, hops, found) :
                    a \in A, hops \in 0..MaxSuperHops, found \in BOOLEAN}
  IN  {clipSetupDone(c) : c \in RunFrom(clipSetupTail, B, TRUE)}

setupClipboardManager ==
  /\ ~crashed
  /\ IF clipSetupNeeded
     THEN \E st \in clipSetupBody :
            /\ StoreClip(st)
            /\ clipboardFailed' = st.failed
            /\ clipboardLastError' = st.err
            /\ Observe("setupClipboardManager", st, "valid", "void")
     ELSE /\ UNCHANGED clipVars
          /\ Observe("setupClipboardManager",
                     Start(Handles, clipboardFailed, clipboardLastError),
                     "valid", "void")
  /\ UNCHANGED <<mainVars, eglVars, browserVars>>

\* ----------------------------------------------------------- setupBrowser ----
\* Lines 556-606, in program order.
browserSetupSteps == <<
  Step(556, "FindClass", "", {}, "intentClass",
       "intentClass", "failed to find Intent class"),
  Step(564, "GetMethodID", "find_method", {"intentClass"},
       "intentConstructor", "intentConstructor",
       "failed to find Intent constructor"),
  Step(571, "FindClass", "", {}, "uriClass",
       "uriClass", "failed to find Uri class"),
  Step(579, "GetStaticMethodID", "find_static_method", {"uriClass"},
       "uriParseFunc", "uriParseFunc",
       "failed to find static method Uri.parse"),
  Step(586, "GetStaticFieldID", "", {"intentClass"},
       "actionViewField", "actionViewField",
       "failed to find Intent.ACTION_VIEW"),
  Step(593, "GetStaticObjectField", "", {"intentClass", "actionViewField"},
       "actionViewString", "actionViewString",
       "failed to read Intent.ACTION_VIEW"),
  \* line 602 tests intentConstructor, not startActivityFunc
  Step(601, "GetMethodID", "find_method", {"contextClass"},
       "startActivityFunc", "intentConstructor",
       "failed to find startActivity function") >>

\* Lines 548-554: nothing to do once setup has completed or failed.
browserSetupNeeded == ~(browserFailed = 0 /\ browserInitCompleted # 0)
                      /\ browserFailed = 0

setupBrowser ==
  /\ ~crashed
  /\ IF browserSetupNeeded
     THEN \E st \in RunSteps(browserSetupSteps,
                              Start(Handles, browserFailed, browserLastError),
                              TRUE) :
                /\ StoreBrowser(st)
                /\ browserFailed' = st.failed
                /\ browserLastError' = st.err
                /\ browserInitCompleted' =
                     IF st.crashed \/ st.returned THEN browserInitCompleted
                     ELSE 1
                /\ Observe("setupBrowser", st, "valid", "void")
     ELSE /\ UNCHANGED browserVars
          /\ Observe("setupBrowser",
                     Start(Handles, browserFailed, browserLastError),
                     "valid", "void")
  /\ UNCHANGED <<mainVars, eglVars, clipVars>>

\* ------------------------------------------------------ JVMEnsureAttached ----
\* Lines 230-245.  NULL once the clipboard has failed; else the env of an
\* attached thread, or of a thread attached now, or NULL.
JVMEnsureAttached(getEnvOk, attachOk) ==
  IF clipboardFailed # 0 THEN [env |-> "null", calls |-> <<>>]
  ELSE IF getEnvOk
       THEN [env |-> "valid", calls |-> <<[fn |-> "GetEnv", line |-> 236]>>]
       ELSE [env |-> IF attachOk THEN "valid" ELSE "null",
             calls |-> <<[fn |-> "GetEnv", line |-> 236],
                         [fn |-> "AttachCurrentThread", line |-> 240]>>]

\* The outcomes of GetEnv and of the AttachCurrentThread that is called only
\* if GetEnv fails.
VmOutcomes ==
  {[getEnvOk |-> TRUE, attachOk |-> TRUE],
   [getEnvOk |-> FALSE, attachOk |-> TRUE],
   [getEnvOk |-> FALSE, attachOk |-> FALSE]}

\* A service handler past its failed-flag guard: the calls of steps made
\* through the env JVMEnsureAttached returned.  The first call through a
\* NULL env is a load from address 0.
ThroughEnv(att, steps, err) ==
  LET st0 == [Start(Handles, 0, err) EXCEPT !.calls = att.calls]
  IN  IF att.env = "null" THEN {[st0 EXCEPT !.crashed = TRUE]}
      ELSE RunSteps(steps, st0, FALSE)

\* ----------------------------------------------------- getClipboardString ----
\* Lines 276-300.
getClipSteps == <<
  Step(276, "CallObjectMethod", "", {"clipboardManager", "getPrimaryClipFunc"},
       "clipData", "clipData", "Error getting clipboard data"),
  Step(282, "CallObjectMethod", "", {"clipData", "getItemAtFunc"},
       "clipFirstItem", "clipFirstItem",
       "Error getting first item of clipboard"),
  Step(288, "CallObjectMethod", "", {"clipFirstItem", "getTextFunc"},
       "charSequence", "charSequence",
       "Looks like no text is copied right now"),
  Step(294, "CallObjectMethod", "", {"charSequence", "charSequencetoString"},
       "result", "result", "CharSequence could not be converted to string"),
  Step(300, "GetStringUTFChars", "", {"result"}, "utf", "", "") >>

\* Lines 271-273.
getClipDisabled == clipboardFailed # 0

getClipboardString ==
  /\ ~crashed
  /\ IF getClipDisabled
     THEN /\ UNCHANGED clipboardLastError
          /\ Observe("getClipboardString",
                     Start(Handles, 0, clipboardLastError), "none", "")
     ELSE \E vm \in VmOutcomes :
          LET att == JVMEnsureAttached(vm.getEnvOk, vm.attachOk)
          IN  \E st \in ThroughEnv(att, getClipSteps, clipboardLastError) :
                /\ clipboardLastError' = st.err
                /\ Observe("getClipboardString", st, att.env,
                           IF st.returned THEN ""
                           ELSE IF st.env.utf = NULL THEN "NULL"
                           ELSE "text")
  /\ UNCHANGED <<mainVars, eglVars, clipHandles, clipboardFailed, browserVars>>

\* ----------------------------------------------------- setClipboardString ----
\* Lines 311-339.
setClipSteps == <<
  Step(311, "NewStringUTF", "", {}, "textToSet", "", ""),
  Step(312, "FindClass", "", {}, "stringClass", "", ""),
  Step(313, "NewStringUTF", "", {}, "mimeTypeString", "", ""),
  Step(314, "NewObjectArray", "", {"stringClass"}, "mimeTypeStringArray",
       "mimeTypeStringArray", "Failed to create mime type string array"),
  Step(320, "NewObject", "",
       {"clipDescriptionClass", "clipDescriptionConstructor"},
       "clipDescription", "clipDescription",
       "Failed to create clip description"),
  Step(326, "NewStringUTF", "", {}, "inputString", "", ""),
  Step(327, "NewObject", "", {"clipDataItemClass", "clipDataItemConstructor"},
       "clipDataItem", "clipDataItem", "Failed to create clip data item"),
  Step(333, "NewObject", "", {"clipDataClass", "clipDataConstructor"},
       "clipData", "clipData", "Failed to create clip data"),
  Step(339, "CallVoidMethod", "", {"clipboardManager", "setPrimaryClipFunc"},
       "", "", "") >>

\* Lines 304-306.
setClipDisabled == clipboardFailed # 0

setClipboardString ==
  /\ ~crashed
  /\ IF setClipDisabled
     THEN /\ UNCHANGED clipboardLastError
          /\ Observe("setClipboardString",
                     Start(Handles, 0, clipboardLastError), "none", "void")
     ELSE \E vm \in VmOutcomes :
          LET att == JVMEnsureAttached(vm.getEnvOk, vm.attachOk)
          IN  \E st \in ThroughEnv(att, setClipSteps, clipboardLastError) :
                /\ clipboardLastError' = st.err
                /\ Observe("setClipboardString", st, att.env, "void")
  /\ UNCHANGED <<mainVars, eglVars, clipHandles, clipboardFailed, browserVars>>

\* ---------------------------------------------------------------- openUrl ----
\* Lines 618-640.
openUrlSteps == <<
  Step(618, "NewStringUTF", "", {}, "urlstring",
       "urlstring", "Failed to create jstring for url"),
  Step(624, "CallStaticObjectMethod", "", {"uriClass", "uriParseFunc"},
       "uri", "uri", "Uri.parse call failed"),
  Step(630, "NewObject", "", {"intentClass", "intentConstructor"},
       "intent", "intent", "Failed to create intent"),
  Step(636, "CallVoidMethod", "", {"applicationContext", "startActivityFunc"},
       "", "ExceptionOccurred", "Failed to start activity:") >>

\* openUrlDisabled testing the clipboard's flag instead of the browser's.
openUrlDisabled_WrongFlag == clipboardFailed # 0

\* Lines 612-614.
openUrlDisabled == browserFailed # 0

openUrl ==
  /\ ~crashed
  /\ IF openUrlDisabled
     THEN /\ UNCHANGED browserLastError
          /\ Observe("openUrl", Start(Handles, 0, browserLastError),
                     "none", "void")
     ELSE \E vm \in VmOutcomes :
          LET att == JVMEnsureAttached(vm.getEnvOk, vm.attachOk)
          IN  \E st \in ThroughEnv(att, openUrlSteps, browserLastError) :
                /\ browserLastError' = st.err
                /\ Observe("openUrl", st, att.env, "void")
  /\ UNCHANGED <<mainVars, eglVars, clipVars, browserHandles, browserFailed,
                 browserInitCompleted>>

\* ------------------------------------------------ ANativeActivity_onCreate ----
\* Lines 82-95: the one-time setup.  None of its results is tested.  The
\* NewGlobalRef calls of lines 83 and 86 keep the NULL-ness of their argument.
mainSetupSteps == <<
  Step(82, "GetObjectClass", "", {"context"}, "current_class", "", ""),
  Step(84, "GetStaticMethodID", "find_static_method", {"current_class"},
       "key_rune_method", "", ""),
  Step(89, "GetMethodID", "find_method", {"current_class"}, "gettmpdir",
       "", ""),
  Step(90, "CallObjectMethod", "", {"context", "gettmpdir"}, "jpath", "", ""),
  Step(91, "GetStringUTFChars", "", {"jpath"}, "tmpdir", "", ""),
  Step(92, "setenv", "", {"tmpdir"}, "", "", ""),
  Step(95, "ReleaseStringUTFChars", "", {"jpath", "tmpdir"}, "", "", "") >>

\* mainSetupNeeded without the test of main_running: setup on every create.
mainSetupNeeded_Always == TRUE

\* Line 78: if (!main_running).
mainSetupNeeded == main_running = 0

\* Lines 77-127.  callMain (line 102) is called whether or not dlsym found
\* main.main: a missing symbol is only logged.
ANativeActivity_onCreate ==
  /\ ~crashed
  /\ activityCreates < MaxCreates
  /\ activityCreates' = activityCreates + 1
  /\ IF mainSetupNeeded
     THEN \E st \in RunSteps(mainSetupSteps, Start(Handles, 0, ""), FALSE) :
            LET done == [st EXCEPT
                           !.calls = @ \o <<[fn |-> "callMain", line |-> 102],
                                           [fn |-> "onCreate", line |-> 126]>>]
            IN  /\ setupRuns' = setupRuns + 1
                /\ current_class' = st.env.current_class
                /\ key_rune_method' = st.env.key_rune_method
                /\ IF st.crashed
                   THEN /\ UNCHANGED <<main_running, callMainCalls,
                                       onCreateCalls>>
                        /\ Observe("ANativeActivity_onCreate", st, "valid",
                                   "void")
                   ELSE /\ callMainCalls' = callMainCalls + 1
                        /\ main_running' = 1
                        /\ onCreateCalls' = onCreateCalls + 1
                        /\ Observe("ANativeActivity_onCreate", done, "valid",
                                   "void")
     ELSE /\ onCreateCalls' = onCreateCalls + 1
          /\ UNCHANGED <<main_running, current_class, key_rune_method,
                         setupRuns, callMainCalls>>
          /\ Observe("ANativeActivity_onCreate",
                     [Start(Handles, 0, "") EXCEPT
                        !.calls = <<[fn |-> "onCreate", line |-> 126]>>],
                     "valid", "void")
  /\ UNCHANGED <<eglVars, clipVars, browserVars>>

\* ------------------------------------------------------------------- EGL ----
\* Lines 145-146 (initEGLDisplay), run only if display == 0.
eglInitSteps == <<
  [line |-> 145, fn |-> "eglGetDisplay", err |-> ""],
  [line |-> 146, fn |-> "eglInitialize", err |-> "EGL initialize failed"] >>

\* Lines 164-184: the EGL and window calls of createEGLSurface in program
\* order, each with the string returned when the code tests its outcome and
\* it is a failure ("" when the code does not test it).  Line 167 is the
\* test of numConfigs, which eglChooseConfig wrote.
eglSurfaceSteps == <<
  [line |-> 164, fn |-> "eglChooseConfig",
   err |-> "EGL choose RGB_888 config failed"],
  [line |-> 167, fn |-> "numConfigs", err |-> "EGL no config found"],
  [line |-> 171, fn |-> "eglGetConfigAttrib", err |-> ""],
  [line |-> 172, fn |-> "ANativeWindow_setBuffersGeometry",
   err |-> "EGL set buffers geometry failed"],
  [line |-> 176, fn |-> "eglCreateWindowSurface",
   err |-> "EGL create surface failed"],
  [line |-> 182, fn |-> "eglCreateContext", err |-> ""],
  [line |-> 184, fn |-> "eglMakeCurrent", err |-> "eglMakeCurrent failed"] >>

\* The step s with outcome ok: eglGetDisplay and eglCreateWindowSurface
\* store their result (EGL_NO_DISPLAY and EGL_NO_SURFACE are 0).
eglCalled(st, s, ok) ==
  [st EXCEPT
     !.calls = Append(@, [fn |-> s.fn, line |-> s.line]),
     !.faults = IF ok THEN @ ELSE @ \cup {s.line},
     !.display = IF s.line = 145 THEN (IF ok THEN NonNull ELSE NULL) ELSE @,
     !.surface = IF s.line = 176 THEN (IF ok THEN NonNull ELSE NULL) ELSE @,
     !.ret = IF ~ok /\ s.err # "" THEN s.err ELSE @]

RECURSIVE eglRun(_, _)
\* The steps in order up to the first tested failure, over the outcomes of
\* each step; ret is the returned string, "NULL" for the NULL of success.
eglRun(steps, st) ==
  IF st.ret # "" THEN {st}
  ELSE IF steps = <<>> THEN {[st EXCEPT !.ret = "NULL"]}
  ELSE UNION {eglRun(Tail(steps), eglCalled(st, Head(steps), ok)) :
                ok \in BOOLEAN}

\* Line 158: if (display == 0).
eglInitNeeded == display = 0

\* Lines 152-188.
createEGLSurface ==
  /\ ~crashed
  /\ \E r \in eglRun((IF eglInitNeeded THEN eglInitSteps ELSE <<>>)
                     \o eglSurfaceSteps,
                     [calls |-> <<>>, faults |-> {}, ret |-> "",
                      display |-> display, surface |-> surface]) :
       /\ display' = r.display
       /\ surface' = r.surface
       /\ Observe("createEGLSurface",
                  [Start(Handles, 0, "") EXCEPT !.calls = r.calls,
                                                !.faults = r.faults],
                  "none", r.ret)
  /\ UNCHANGED <<mainVars, clipVars, browserVars>>

\* Lines 190-195.
destroyEGLSurface ==
  /\ ~crashed
  /\ \E ok \in BOOLEAN :
       Observe("destroyEGLSurface",
               [Start(Handles, 0, "") EXCEPT
                  !.calls = <<[fn |-> "eglDestroySurface", line |-> 191]>>,
                  !.faults = IF ok THEN {} ELSE {191}],
               "none", IF ok THEN "NULL" ELSE "EGL destroy surface failed")
  /\ UNCHANGED <<mainVars, eglVars, clipVars, browserVars>>

\* ------------------------------------------------------------ getKeyRune ----
\* Line 198: getRune is called through the globals ANativeActivity_onCreate
\* stored; nothing is tested before or after the call.
getKeyRuneSteps == <<
  Step(198, "CallStaticIntMethod", "", {"current_class", "key_rune_method"},
       "", "", "") >>

\* Lines 197-206.  The caller supplies env.  The result is the rune, or 0
\* with the exception getRune threw left pending on the thread.
getKeyRune ==
  /\ ~crashed
  /\ \E st \in RunSteps(getKeyRuneSteps, Start(Handles, 0, ""), FALSE) :
       Observe("getKeyRune", st, "valid",
               IF 198 \in st.faults THEN "0" ELSE "rune")
  /\ UNCHANGED <<mainVars, eglVars, clipVars, browserVars>>

\* --------------------------------------------------------- specifications ----
\* The state once the library is loaded (JNI_OnLoad has stored the VM) and
\* before any handler has run: every global has its initialiser.
Init ==
  /\ main_running = 0 /\ current_class = NULL /\ key_rune_method = NULL
  /\ setupRuns = 0 /\ callMainCalls = 0 /\ onCreateCalls = 0
  /\ activityCreates = 0
  /\ display = NULL /\ surface = NULL
  /\ clipboardManager = NULL /\ applicationContext = NULL
  /\ contextClass = NULL /\ clipDataClass = NULL
  /\ clipDataConstructor = NULL /\ clipDataItemClass = NULL
  /\ clipDataItemConstructor = NULL /\ clipDescriptionClass = NULL
  /\ clipDescriptionConstructor = NULL /\ getPrimaryClipFunc = NULL
  /\ getItemAtFunc = NULL /\ getTextFunc = NULL
  /\ charSequencetoString = NULL /\ setPrimaryClipFunc = NULL
  /\ clipboardFailed = 0 /\ clipboardLastError = ""
  /\ intentClass = NULL /\ intentConstructor = NULL /\ uriClass = NULL
  /\ uriParseFunc = NULL /\ startActivityFunc = NULL
  /\ actionViewString = NULL
  /\ browserFailed = 0 /\ browserInitCompleted = 0 /\ browserLastError = ""
  /\ lastOp = "" /\ lastCalls = <<>> /\ lastCem = <<>>
  /\ lastNullArgs = {} /\ lastFailed = {} /\ lastEnv = "none"
  /\ lastRet = "" /\ crashed = FALSE
  /\ exceptionPending = FALSE

\* The Activity's lifecycle, its window and its key events.  These handlers
\* and the platform services below read and write disjoint globals; what
\* they share is the thread's pending exception.
NextActivity ==
  \/ ANativeActivity_onCreate
  \/ createEGLSurface
  \/ destroyEGLSurface
  \/ getKeyRune

\* The platform services.
NextServices ==
  \/ setupClipboardManager
  \/ setupBrowser
  \/ getClipboardString
  \/ setClipboardString
  \/ openUrl

Next == NextActivity \/ NextServices

SpecActivity == Init /\ [][NextActivity]_vars
SpecServices == Init /\ [][NextServices]_vars
Spec == Init /\ [][Next]_vars

\* ----------------------------------------------------------------- claims ----
\* The last call the last handler made.
LastCall == lastCalls[Len(lastCalls)]

\* The positions of fn in the last handler's calls.
CallsOf(fn) == {i \in 1..Len(lastCalls) : lastCalls[i].fn = fn}

\* C1: over any sequence of ANativeActivity_onCreate calls, callMain is
\* invoked at most once and the setup guarded by main_running is entered at
\* most once; once a call has returned both have happened exactly once, and
\* onCreate(activity) has been forwarded once per call; callMain is invoked
\* in the first call only, right before that call forwards onCreate.
C1_MainStartedOnce ==
  /\ callMainCalls <= 1 /\ setupRuns <= 1
  /\ (main_running = 1) <=> (callMainCalls = 1)
  /\ ~crashed => onCreateCalls = activityCreates
  /\ (~crashed /\ activityCreates >= 1) =>
       (callMainCalls = 1 /\ setupRuns = 1)
  /\ (~crashed /\ lastOp = "ANativeActivity_onCreate") =>
       /\ CallsOf("onCreate") = {Len(lastCalls)}
       /\ CallsOf("callMain") =
            IF activityCreates = 1 THEN {Len(lastCalls) - 1} ELSE {}

\* C1's case: the Activity was created MaxCreates times, the last call made
\* no setup call, and main was started once.
C1_Witness ==
  /\ ~crashed /\ lastOp = "ANativeActivity_onCreate"
  /\ activityCreates = MaxCreates /\ onCreateCalls = MaxCreates
  /\ callMainCalls = 1 /\ Len(lastCalls) = 1

\* The string createEGLSurface returns for a failure of the step at line l.
eglErr(l) ==
  LET all == eglInitSteps \o eglSurfaceSteps
      i   == CHOOSE j \in 1..Len(all) : all[j].line = l
  IN  all[i].err

\* The steps C2 lists: eglInitialize stands for "initialise the display".
C2Steps == {146, 164, 167, 171, 172, 176, 182, 184}

\* C2: createEGLSurface runs its steps in one fixed order; the first step
\* that fails makes it return that step's error string without executing any
\* later step, and it returns NULL only when every step succeeded.
C2_FirstFailureReturns ==
  lastOp = "createEGLSurface" =>
    /\ \A i \in 1..Len(lastCalls) :
         lastCalls[i].line \in (lastFailed \cap C2Steps) =>
           /\ i = Len(lastCalls)
           /\ eglErr(lastCalls[i].line) # ""
           /\ lastRet = eglErr(lastCalls[i].line)
    /\ lastRet = "NULL" => lastFailed \cap C2Steps = {}

\* C3: a call to setupClipboardManager made when clipboardManager is held or
\* clipboardFailed is 1, and a call to setupBrowser made when
\* browserInitCompleted is 1 or browserFailed is 1, makes no JNI call and
\* leaves every clipboard and browser global unchanged.
C3_SetupOneShot ==
  [][ /\ (lastOp' = "setupClipboardManager"
           /\ (clipboardManager # NULL \/ clipboardFailed = 1)) =>
          (lastCalls' = <<>> /\ UNCHANGED <<clipVars, browserVars>>)
      /\ (lastOp' = "setupBrowser"
           /\ (browserInitCompleted = 1 \/ browserFailed = 1)) =>
          (lastCalls' = <<>> /\ UNCHANGED <<clipVars, browserVars>>)
    ]_vars

\* C3's case: setupClipboardManager was called with the manager held (and
\* the browser set up) and did nothing.
C3_Witness ==
  /\ lastOp = "setupClipboardManager" /\ lastCalls = <<>>
  /\ clipboardManager # NULL /\ clipboardFailed = 0
  /\ browserInitCompleted = 1

\* C4: no operation resets clipboardFailed or browserFailed once it is 1;
\* with clipboardFailed 1 getClipboardString returns "" and
\* setClipboardString returns, and with browserFailed 1 openUrl returns,
\* each without making any call.
C4_FailedIsPermanent ==
  [][ /\ clipboardFailed = 1 => clipboardFailed' = 1
      /\ browserFailed = 1 => browserFailed' = 1
      /\ (clipboardFailed = 1 /\ lastOp' = "getClipboardString") =>
           (lastCalls' = <<>> /\ lastRet' = "" /\ ~crashed')
      /\ (clipboardFailed = 1 /\ lastOp' = "setClipboardString") =>
           (lastCalls' = <<>> /\ lastRet' = "void" /\ ~crashed')
      /\ (browserFailed = 1 /\ lastOp' = "openUrl") =>
           (lastCalls' = <<>> /\ lastRet' = "void" /\ ~crashed')
    ]_vars

\* C4's case: openUrl was called after browser setup had failed, in a
\* process whose clipboard is working.
C4_Witness ==
  /\ lastOp = "openUrl" /\ browserFailed = 1 /\ lastCalls = <<>>
  /\ clipboardFailed = 0 /\ clipboardManager # NULL /\ ~crashed

\* C5: browserInitCompleted = 1 implies browserFailed = 0 and that every
\* handle openUrl dereferences is non-NULL; when the lookup of startActivity
\* fails, setupBrowser sets browserFailed with the error "failed to find
\* startActivity function" and does not set browserInitCompleted.
C5_BrowserReady ==
  ~crashed =>
    /\ browserInitCompleted = 1 =>
         /\ browserFailed = 0
         /\ \A h \in {intentClass, intentConstructor, uriClass, uriParseFunc,
                      actionViewString, startActivityFunc,
                      applicationContext} : h # NULL
    /\ (lastOp = "setupBrowser" /\ 601 \in lastFailed) =>
         /\ browserFailed = 1
         /\ browserLastError = "failed to find startActivity function"
         /\ browserInitCompleted = 0

\* C6: every invocation of copyExceptionMessage happens while a Java
\* exception is pending.
C6_ExceptionPending ==
  \A i \in 1..Len(lastCem) : lastCem[i].pending

\* The message setupClipboardManager records for a failure of the call at
\* line l.
clipMsg(l) ==
  IF l = 372 THEN "failed to get superclass"
  ELSE LET all == clipSetupHead \o clipSetupTail
           i   == CHOOSE j \in 1..Len(all) : all[j].line = l
       IN  all[i].msg

\* C7: in setupClipboardManager every lookup whose result is NULL / 0 is
\* detected at its own step: the step sets clipboardFailed, records its
\* message (when the process survives recording it) and returns, so that no
\* NULL handle is passed to a later call of the setup.  A find_method of line
\* 367 that fails is followed by the climb to the superclass.
C7_DetectedAtOwnStep ==
  lastOp = "setupClipboardManager" =>
    /\ lastNullArgs \ {251} = {}
    /\ \A f \in lastFailed \ {367} :
         /\ clipboardFailed = 1
         /\ LastCall.line = f
         /\ ~crashed => clipboardLastError = clipMsg(f)

\* C8: whenever getClipboardString, setClipboardString or openUrl passes
\* its failed-flag guard, the env it got from JVMEnsureAttached is non-NULL.
C8_EnvNonNull ==
  lastOp \in {"getClipboardString", "setClipboardString", "openUrl"} =>
    lastEnv # "null"

=============================================================================
